---- MODULE Spec2Model ----
(***************************************************************************)
(* Semantic indexer of DocQA-MS (backend/indexer_semantique): the FAISS    *)
(* vector store, its reconciliation with the database, the RabbitMQ        *)
(* document consumer, the indexing / delete / search HTTP handlers and the *)
(* background save of the index.                                           *)
(*                                                                         *)
(* Threads of the process: the asyncio event loop (lifespan, HTTP          *)
(* handlers), the daemon consumer thread started by lifespan, and the      *)
(* thread-pool thread that runs a BackgroundTasks save_index.  The vector  *)
(* store is one module-level object shared by all of them, without a lock. *)
(***************************************************************************)
EXTENDS Integers, Sequences, FiniteSets, TLC

(* ------------------------------ bounds --------------------------------- *)
MaxVectors == 3      \* capacity of the FAISS index in the model
MaxQueue == 1        \* messages per document that may wait in the queue
MaxSaves == 1        \* background save_index tasks scheduled and not yet run
MaxOps == 4          \* uploads, outages, events, requests and restarts in one run

(* --------------------------- identifiers ------------------------------- *)
\* A document_id is a sequence of tokens; "_chunk_" is the token boundary.
Docs == {<<"a">>, <<"b">>}

\* documents.py:138 draws ids from uuid4; ORDER BY de.document_id needs an order
DocRank(d) == IF d = <<"a">> THEN 0 ELSE 1

\* chunk indexes an Indexing API request may carry
ChunkIndexes == {0, 1}

\* f"{document_id}_chunk_{chunk_index}"
ChunkId(d, i) == Append(d, ToString(i))

ChunkIds == {ChunkId(d, i) : d \in Docs, i \in ChunkIndexes}

\* chunk_id.startswith(f"{document_id}_chunk_")
StartsWithDoc(c, d) == Len(c) > Len(d) /\ SubSeq(c, 1, Len(d)) = d

\* chunk_id.rsplit('_chunk_', 1)[0]
DocOf(c) == SubSeq(c, 1, Len(c) - 1)

IndexOf(c) == IF c[Len(c)] = "0" THEN 0 ELSE 1

NoDoc == <<>>

\* the chunk lists an Indexing API request carries (chunk.index of each chunk)
Requests == {<<>>, <<0>>, <<0, 1>>, <<0, 0>>}

(* ------------------------------ state ---------------------------------- *)
VARIABLES
    phase,                \* lifespan: "startup", "synced" (sync returned), "running", "stopped"
    ops,                  \* operations started so far (bounded by MaxOps)
    dbUp,                 \* the PostgreSQL server is reachable
    pool,                 \* db_manager.pool was created by lifespan
    processing_status,    \* documents.processing_status, "absent" = no row
    has_text,             \* documents.content has at least 10 characters
    document_embeddings,  \* rows of document_embeddings, by chunk id
    document_chunks,      \* rows of document_chunks, by chunk id
    queue,                \* messages ready in 'document_processing', per document
    index,                \* vector_store.index: slot s holds index[s+1]
    id_mapping,           \* vector_store.id_mapping: slot -> chunk_id
    metadata,             \* vector_store.metadata: chunk_id -> metadata
    disk_index,           \* file VECTOR_INDEX_PATH
    disk_meta,            \* file VECTOR_METADATA_PATH
    sync_result,          \* what the last sync_index_with_database returned
    pre,                  \* the vector store as the last sync or direct call found it
    cpc, cdoc, cconn, cstart, cerr,  \* consumer thread: position, message, conn, start_id, exception
    cslot,                \* the slot FAISS gave the consumer's vector
    cdone,                \* steps of process_document the current attempt has completed
    deleted,              \* chunk_ids a returned delete_vectors removed, not mapped again since
    apc, adoc, achunks, astart, ai, aret,  \* event loop: the handler being run
    pending_saves, spc,   \* background save_index tasks and the running one
    s_seen, s_result, s_torn,  \* search: slots from index.search, result list, torn read
    call                  \* a direct call of one function: its arguments and what it returned

dbVars == <<dbUp, pool, processing_status, has_text, document_embeddings, document_chunks>>
storeVars == <<index, id_mapping, metadata>>
diskVars == <<disk_index, disk_meta>>
syncVars == <<sync_result, pre>>
consumerVars == <<cpc, cdoc, cconn, cstart, cerr, cslot, cdone>>
apiVars == <<apc, adoc, achunks, astart, ai, aret, s_seen, s_result, s_torn>>
saveVars == <<pending_saves, spc>>
vars == <<phase, ops, dbVars, queue, storeVars, diskVars, syncVars, consumerVars, apiVars, saveVars,
          deleted, call>>

EmptyMap == [x \in {} |-> "none"]

\* no function has been called directly
NoCall == [fn |-> "none"]

\* a metadata dict (its contents are not told apart)
Meta == "metadata"

\* the three fields of the VectorStore object
Store(ix, im, md) == [index |-> ix, id_mapping |-> im, metadata |-> md]

EmptyStore == Store(<<>>, EmptyMap, EmptyMap)

(* ------------------- vector_store.py: VectorStore ---------------------- *)
\* d[k] = v on a Python dict
Put(f, k, v) == [x \in DOMAIN f \cup {k} |-> IF x = k THEN v ELSE f[x]]

\* {k: v for k, v in d.items() if keep}
Restrict(f, keys) == [x \in keys |-> f[x]]

Min(a, b) == IF a < b THEN a ELSE b

\* self.index.add(vectors): FAISS appends, ids are positions
IndexAdd(ix, vectors) == ix \o vectors

\* an iteration that forgets the metadata entry
MapWriteSlotOnly(st, faiss_id, chunk_id, md) ==
    [st EXCEPT !.id_mapping = Put(@, faiss_id, chunk_id)]

\* one iteration of the loop of add_vectors (lines 113-115)
MapWrite(st, faiss_id, chunk_id, md) ==
    [st EXCEPT !.metadata = Put(@, chunk_id, md),
               !.id_mapping = Put(@, faiss_id, chunk_id)]

\* for i, (chunk_id, metadata) in enumerate(zip(chunk_ids, metadata_list)),
\* iterations i..; faiss_ids[i] raises IndexError when i >= len(vectors)
RECURSIVE AddLoop(_, _, _, _, _, _)
AddLoop(st, start_id, n, chunk_ids, metadata_list, i) ==
    IF i > Min(Len(chunk_ids), Len(metadata_list))
    THEN [store |-> st, raised |-> FALSE]
    ELSE IF i > n
         THEN [store |-> st, raised |-> TRUE]
         ELSE AddLoop(MapWrite(st, start_id + i - 1, chunk_ids[i], metadata_list[i]),
                      start_id, n, chunk_ids, metadata_list, i + 1)

\* add_vectors as one call on a store nobody else touches; faiss_ok = FALSE
\* is index.add raising (wrong dimension, allocation failure)
AddVectors(st, vectors, chunk_ids, metadata_list, faiss_ok) ==
    IF Len(vectors) = 0
    THEN [store |-> st, raised |-> FALSE, faiss_ids |-> <<>>]
    ELSE IF ~faiss_ok
    THEN [store |-> st, raised |-> TRUE, faiss_ids |-> <<>>]
    ELSE LET added == [st EXCEPT !.index = IndexAdd(@, vectors)]
             start_id == Len(added.index) - Len(vectors)
             r == AddLoop(added, start_id, Len(vectors), chunk_ids, metadata_list, 1)
         IN  [store |-> r.store, raised |-> r.raised,
              faiss_ids |-> IF r.raised THEN <<>>
                            ELSE [j \in 1..Len(vectors) |-> start_id + j - 1]]

\* an iteration that pops the metadata and leaves the id_mapping entries
DeleteOneMetadataOnly(st, chunk_id) ==
    [st EXCEPT !.metadata = Restrict(@, DOMAIN @ \ {chunk_id})]

\* one iteration of the loop of delete_vectors (lines 212-215)
DeleteOne(st, chunk_id) ==
    [st EXCEPT !.metadata = Restrict(@, DOMAIN @ \ {chunk_id}),
               !.id_mapping = Restrict(@, {k \in DOMAIN @ : @[k] # chunk_id})]

RECURSIVE DeleteLoop(_, _, _)
DeleteLoop(st, chunk_ids, i) ==
    IF i > Len(chunk_ids) THEN st
    ELSE DeleteLoop(DeleteOne(st, chunk_ids[i]), chunk_ids, i + 1)

\* a delete that also takes the vectors of the chunk_ids out of the index
DeleteVectorsCompacting(st, chunk_ids) ==
    LET Kept(v) == \A i \in 1..Len(chunk_ids) : chunk_ids[i] # v
    IN  [store |-> [DeleteLoop(st, chunk_ids, 1) EXCEPT !.index = SelectSeq(@, Kept)],
         deleted |-> Len(chunk_ids)]

\* delete_vectors: the vectors stay in the index, the count is len(chunk_ids)
DeleteVectors(st, chunk_ids) ==
    [store |-> DeleteLoop(st, chunk_ids, 1), deleted |-> Len(chunk_ids)]

\* the two snapshot files; state is "missing", "ok" or "corrupt" (unreadable)
NoIndexFile == [state |-> "missing", vectors |-> <<>>]

NoMetaFile == [state |-> "missing", metadata |-> EmptyMap, id_mapping |-> EmptyMap]

\* faiss.write_index(self.index, self.index_path)
IndexFile(st) == [state |-> "ok", vectors |-> st.index]

\* the data dict save_index dumps with json.dump
MetaFile(st) == [state |-> "ok", metadata |-> st.metadata, id_mapping |-> st.id_mapping]

\* open(self.metadata_path, 'w') truncated the file and json.dump did not finish
CorruptMetaFile == [state |-> "corrupt", metadata |-> EmptyMap, id_mapping |-> EmptyMap]

\* _load_or_create_index: the metadata file is read only when the index file
\* exists; any exception falls back to a new empty index
LoadOrCreateIndex(di, dm) ==
    IF di.state = "missing" THEN EmptyStore
    ELSE IF di.state = "corrupt" \/ dm.state = "corrupt" THEN EmptyStore
    ELSE IF dm.state = "missing" THEN Store(di.vectors, EmptyMap, EmptyMap)
    ELSE Store(di.vectors, dm.id_mapping, dm.metadata)

\* chunk ids a search can return: mapped slots of the index
Reachable(st) == {st.id_mapping[s] : s \in DOMAIN st.id_mapping \cap 0..(Len(st.index) - 1)}

CurStore == Store(index, id_mapping, metadata)

(* ------------------------------- Init ---------------------------------- *)
Init ==
    /\ phase = "startup"
    /\ ops = 0
    /\ dbUp = TRUE
    /\ pool = FALSE
    /\ processing_status = [d \in Docs |-> "absent"]
    /\ has_text = [d \in Docs |-> FALSE]
    /\ document_embeddings = {}
    /\ document_chunks = {}
    /\ queue = [d \in Docs |-> 0]
    /\ index = <<>>
    /\ id_mapping = EmptyMap
    /\ metadata = EmptyMap
    /\ disk_index = NoIndexFile
    /\ disk_meta = NoMetaFile
    /\ sync_result = "none"
    /\ pre = EmptyStore
    /\ cpc = "stopped" /\ cdoc = NoDoc /\ cconn = FALSE /\ cstart = 0 /\ cerr = "none"
    /\ cslot = 0 /\ cdone = {}
    /\ deleted = {}
    /\ apc = "idle" /\ adoc = NoDoc /\ achunks = <<>> /\ astart = 0 /\ ai = 0 /\ aret = "none"
    /\ pending_saves = 0 /\ spc = "idle"
    /\ s_seen = {} /\ s_result = <<>> /\ s_torn = FALSE
    /\ call = NoCall

(* --------------------------- environment ------------------------------- *)
\* the database server goes away / comes back
DbDown ==
    /\ dbUp
    /\ ops < MaxOps /\ ops' = ops + 1
    /\ dbUp' = FALSE
    /\ UNCHANGED <<phase, pool, processing_status, has_text, document_embeddings,
                   document_chunks, queue, storeVars, diskVars, syncVars,
                   consumerVars, apiVars, saveVars, deleted, call>>

DbRecover ==
    /\ ~dbUp
    /\ dbUp' = TRUE
    /\ UNCHANGED <<phase, ops, pool, processing_status, has_text, document_embeddings,
                   document_chunks, queue, storeVars, diskVars, syncVars,
                   consumerVars, apiVars, saveVars, deleted, call>>

\* doc_ingestor upload_document: save_document (a failure is logged and the
\* upload continues), then publish_to_queue
UploadDocument(d, text) ==
    /\ processing_status[d] = "absent"
    /\ queue[d] < MaxQueue /\ cdoc # d
    /\ IF dbUp
       THEN /\ processing_status' = [processing_status EXCEPT ![d] = "uploaded"]
            /\ has_text' = [has_text EXCEPT ![d] = text]
       ELSE UNCHANGED <<processing_status, has_text>>
    /\ queue' = [queue EXCEPT ![d] = @ + 1]
    /\ ops < MaxOps /\ ops' = ops + 1
    /\ UNCHANGED <<phase, dbUp, pool, document_embeddings, document_chunks,
                   storeVars, diskVars, syncVars, consumerVars, apiVars, saveVars, deleted, call>>

\* doc_ingestor ingest_document: publishes the caller's document_id
IngestDocument(d) ==
    /\ processing_status[d] # "absent"
    /\ queue[d] < MaxQueue /\ cdoc # d
    /\ queue' = [queue EXCEPT ![d] = @ + 1]
    /\ ops < MaxOps /\ ops' = ops + 1
    /\ UNCHANGED <<phase, dbVars, storeVars, diskVars, syncVars, consumerVars,
                   apiVars, saveVars, deleted, call>>

(* ------------------------- sync.py, main.py ---------------------------- *)
\* rows of document_embeddings joined with documents WHERE processing_status = 'indexed'
Eligible == {c \in document_embeddings : processing_status[DocOf(c)] = "indexed"}

\* ORDER BY de.document_id, de.chunk_index
RowKey(c) == DocRank(DocOf(c)) * Cardinality(ChunkIndexes) + IndexOf(c)

RECURSIVE OrderedRows(_)
OrderedRows(S) ==
    IF S = {} THEN <<>>
    ELSE LET first == CHOOSE c \in S : \A o \in S : RowKey(c) <= RowKey(o)
         IN  <<first>> \o OrderedRows(S \ {first})

\* needs_sync of sync_index_with_database (line 49)
NeedsSync(force, db_count, faiss_count) ==
    force \/ db_count # faiss_count \/ (faiss_count = 0 /\ db_count > 0)

\* a rebuild that forgets to replace the old index and maps
NotCleared(st) == st

\* lines 95-97: a new empty index and empty maps replace the old ones
Cleared(st) == EmptyStore

\* lines 94-149: the store is cleared in place, then add_vectors on all rows
Rebuilt(st, rows) ==
    AddVectors(Cleared(st), rows, rows, [j \in 1..Len(rows) |-> Meta], TRUE).store

SyncFailures == {"none", "count", "rows", "build", "save_index", "save_open", "save_meta"}

\* sync_index_with_database(force) as lifespan runs it, before the consumer
\* thread exists and before the server accepts requests.  fail names the
\* statement that raises: the COUNT query, the row query, the parsing of an
\* embedding / np.vstack / add_vectors ("build"), faiss.write_index,
\* open(self.metadata_path, 'w') or json.dump in save_index.  The outcome is
\*   [store, disk_index, disk_meta, result]
SyncIndexWithDatabase(st, di, dm, rowset, force, fail) ==
    LET db_count == Cardinality(rowset)
        faiss_count == Len(st.index)
        rows == OrderedRows(rowset)
        new == Rebuilt(st, rows)
        Out(s, i, m, r) == [store |-> s, disk_index |-> i, disk_meta |-> m, result |-> r]
    IN  IF fail = "count" THEN Out(st, di, dm, "error")
        ELSE IF ~NeedsSync(force, db_count, faiss_count) THEN Out(st, di, dm, "in_sync")
        ELSE IF fail = "rows" THEN Out(st, di, dm, "error")
        ELSE IF rows = <<>> THEN Out(st, di, dm, "no_embeddings")
        ELSE IF fail = "build" THEN Out(Cleared(st), di, dm, "error")
        ELSE IF fail = "save_index" THEN Out(new, di, dm, "error")
        ELSE IF fail = "save_open" THEN Out(new, IndexFile(new), dm, "error")
        ELSE IF fail = "save_meta" THEN Out(new, IndexFile(new), CorruptMetaFile, "error")
        ELSE Out(new, IndexFile(new), MetaFile(new), "synced")

\* the failure point is one the call reaches
FailureReached(st, rowset, force, fail) ==
    LET needs == NeedsSync(force, Cardinality(rowset), Len(st.index))
    IN  \/ fail \in {"none", "count"}
        \/ fail = "rows" /\ needs
        \/ fail \in {"build", "save_index", "save_open", "save_meta"} /\ needs /\ rowset # {}

\* lifespan, lines 34-52: db_manager.connect() (a failure is logged), then
\* sync_index_with_database (a failure is logged, startup continues)
LifespanSync(force, fail) ==
    /\ phase = "startup"
    /\ pool' = dbUp
    /\ ~dbUp => fail = "count"
    /\ FailureReached(CurStore, Eligible, force, fail)
    /\ Cardinality(Eligible) <= MaxVectors
    /\ LET out == SyncIndexWithDatabase(CurStore, disk_index, disk_meta, Eligible, force, fail)
       IN  /\ index' = out.store.index
           /\ id_mapping' = out.store.id_mapping
           /\ metadata' = out.store.metadata
           /\ disk_index' = out.disk_index
           /\ disk_meta' = out.disk_meta
           /\ sync_result' = out.result
    /\ pre' = CurStore
    /\ phase' = "synced"
    /\ UNCHANGED <<ops, dbUp, processing_status, has_text, document_embeddings,
                   document_chunks, queue, consumerVars, apiVars, saveVars, deleted, call>>

\* the consumer thread started before the database connect and the sync
LifespanStartConsumerFirst ==
    /\ phase = "startup" /\ cpc = "stopped"
    /\ cpc' = "idle"
    /\ UNCHANGED <<phase, ops, dbVars, queue, storeVars, diskVars, syncVars, cdoc, cconn,
                   cstart, cerr, cslot, cdone, apiVars, saveVars, deleted, call>>

\* lifespan, lines 54-62: consumer.connect(), the daemon thread, then yield
LifespanStartConsumer ==
    /\ phase = "synced"
    /\ phase' = "running"
    /\ cpc' = "idle"
    /\ sync_result' = "none"
    /\ pre' = EmptyStore
    /\ UNCHANGED <<ops, dbVars, queue, storeVars, diskVars, cdoc, cconn,
                   cstart, cerr, cslot, cdone, apiVars, saveVars, deleted, call>>

\* the process stops (crash or shutdown) and is started again: unacknowledged
\* messages return to the queue, vector_store = VectorStore() loads the files
Restart ==
    /\ phase = "running"
    /\ ops < MaxOps /\ ops' = ops + 1
    /\ phase' = "startup"
    /\ pool' = FALSE
    /\ queue' = IF cdoc = NoDoc THEN queue ELSE [queue EXCEPT ![cdoc] = @ + 1]
    /\ LET st == LoadOrCreateIndex(disk_index, disk_meta)
       IN  /\ index' = st.index
           /\ id_mapping' = st.id_mapping
           /\ metadata' = st.metadata
    /\ sync_result' = "none"
    /\ pre' = EmptyStore
    /\ cpc' = "stopped" /\ cdoc' = NoDoc /\ cconn' = FALSE /\ cstart' = 0 /\ cerr' = "none"
    /\ cslot' = 0 /\ cdone' = {}
    /\ apc' = "idle" /\ adoc' = NoDoc /\ achunks' = <<>> /\ astart' = 0 /\ ai' = 0
    /\ aret' = "none" /\ s_seen' = {} /\ s_result' = <<>> /\ s_torn' = FALSE
    /\ pending_saves' = 0 /\ spc' = "idle"
    /\ UNCHANGED <<dbUp, processing_status, has_text, document_embeddings,
                   document_chunks, diskVars, deleted, call>>

\* lifespan after yield, lines 64-67, once the server has finished its
\* requests and their background tasks: consumer.stop() calls
\* channel.stop_consuming() and connection.close() from the main thread, then
\* db_manager.disconnect(); the process exits and its daemon thread with it.
\* stop() does not wait for the callback: a message it has not acknowledged
\* returns to the queue when the connection closes.
LifespanShutdown ==
    /\ phase = "running"
    /\ apc = "idle" /\ spc = "idle" /\ pending_saves = 0
    /\ ops < MaxOps /\ ops' = ops + 1
    /\ phase' = "stopped"
    /\ pool' = FALSE
    /\ queue' = IF cdoc = NoDoc THEN queue ELSE [queue EXCEPT ![cdoc] = @ + 1]
    /\ index' = <<>> /\ id_mapping' = EmptyMap /\ metadata' = EmptyMap
    /\ cpc' = "stopped" /\ cdoc' = NoDoc /\ cconn' = FALSE /\ cstart' = 0 /\ cerr' = "none"
    /\ cslot' = 0 /\ cdone' = {}
    /\ aret' = "none" /\ s_seen' = {} /\ s_result' = <<>> /\ s_torn' = FALSE
    /\ UNCHANGED <<dbUp, processing_status, has_text, document_embeddings, document_chunks,
                   diskVars, syncVars, apc, adoc, achunks, astart, ai, saveVars, deleted, call>>

\* the process is started again after a shutdown: vector_store = VectorStore()
\* loads the files
ProcessStart ==
    /\ phase = "stopped"
    /\ phase' = "startup"
    /\ LET st == LoadOrCreateIndex(disk_index, disk_meta)
       IN  /\ index' = st.index
           /\ id_mapping' = st.id_mapping
           /\ metadata' = st.metadata
    /\ UNCHANGED <<ops, dbVars, queue, diskVars, syncVars, consumerVars, apiVars, saveVars,
                   deleted, call>>

(* ------------------- consumer/document_consumer.py --------------------- *)
othersC == <<phase, ops, queue, diskVars, syncVars, apiVars, saveVars, deleted, call>>

\* callback entered for a message while another one is still in processing
CallbackReentrant(d) ==
    /\ cpc # "stopped"
    /\ queue[d] > 0
    /\ ops < MaxOps /\ ops' = ops + 1
    /\ queue' = [queue EXCEPT ![d] = @ - 1]
    /\ cdoc' = d /\ cconn' = FALSE /\ cerr' = "none" /\ cpc' = "connect"
    /\ cdone' = {}
    /\ UNCHANGED <<phase, dbVars, storeVars, diskVars, syncVars, cstart, cslot, apiVars, saveVars,
                   deleted, call>>

\* callback, lines 151-160: one unacknowledged message (prefetch_count=1)
Callback(d) ==
    /\ cpc = "idle"
    /\ queue[d] > 0
    /\ ops < MaxOps /\ ops' = ops + 1
    /\ queue' = [queue EXCEPT ![d] = @ - 1]
    /\ cdoc' = d /\ cconn' = FALSE /\ cerr' = "none" /\ cpc' = "connect"
    /\ cdone' = {}
    /\ UNCHANGED <<phase, dbVars, storeVars, diskVars, syncVars, cstart, cslot, apiVars, saveVars,
                   deleted, call>>

\* line 51: conn = await asyncpg.connect(...)
ProcessConnect ==
    /\ cpc = "connect"
    /\ IF dbUp
       THEN cconn' = TRUE /\ cpc' = "fetch" /\ cerr' = cerr
       ELSE cconn' = FALSE /\ cpc' = "except" /\ cerr' = "db"
    /\ UNCHANGED <<dbVars, storeVars, cdoc, cstart, cslot, cdone, othersC>>

\* lines 54-66: fetchrow, "not found" returns, short text takes its own branch
ProcessFetch ==
    /\ cpc = "fetch"
    /\ IF ~dbUp THEN cpc' = "except" /\ cerr' = "db"
       ELSE /\ cerr' = cerr
            /\ cpc' = IF processing_status[cdoc] = "absent" THEN "close"
                      ELSE IF ~has_text[cdoc] THEN "mark_short"
                      ELSE "embed"
    /\ UNCHANGED <<dbVars, storeVars, cdoc, cconn, cstart, cslot, cdone, othersC>>

\* lines 69-74: UPDATE ... 'indexed' for a document without enough text
ProcessMarkShort ==
    /\ cpc = "mark_short"
    /\ IF dbUp
       THEN /\ processing_status' = [processing_status EXCEPT ![cdoc] =
                                        IF @ = "absent" THEN @ ELSE "indexed"]
            /\ cpc' = "close" /\ cerr' = cerr
       ELSE /\ cpc' = "except" /\ cerr' = "db"
            /\ UNCHANGED processing_status
    /\ UNCHANGED <<dbUp, pool, has_text, document_embeddings, document_chunks,
                   storeVars, cdoc, cconn, cstart, cslot, cdone, othersC>>

\* lines 78-83: generate_single_embedding raises when the model is not loaded
ProcessEmbed(ok) ==
    /\ cpc = "embed"
    /\ IF ok THEN cpc' = "store" /\ cerr' = cerr /\ cdone' = cdone \cup {"embed"}
       ELSE cpc' = "except" /\ cerr' = "embedding" /\ cdone' = cdone
    /\ UNCHANGED <<dbVars, storeVars, cdoc, cconn, cstart, cslot, othersC>>

\* lines 87-98: INSERT ... ON CONFLICT (document_id, chunk_index) DO UPDATE, chunk_index 0
ProcessStore ==
    /\ cpc = "store"
    /\ IF dbUp
       THEN /\ document_embeddings' = document_embeddings \cup {ChunkId(cdoc, 0)}
            /\ cpc' = "add" /\ cerr' = cerr
            /\ cdone' = cdone \cup {"row"}
       ELSE /\ cpc' = "except" /\ cerr' = "db"
            /\ UNCHANGED <<document_embeddings, cdone>>
    /\ UNCHANGED <<dbUp, pool, processing_status, has_text, document_chunks,
                   storeVars, cdoc, cconn, cstart, cslot, othersC>>

\* line 111 -> add_vectors line 105: self.index.add(vectors).  An exception
\* of add_vectors is logged by line 113-115 and not raised again; cerr keeps
\* it as the error the attempt met.
ProcessAddIndex(ok) ==
    /\ cpc = "add"
    /\ IF ok
       THEN /\ Len(index) < MaxVectors
            /\ index' = IndexAdd(index, <<ChunkId(cdoc, 0)>>)
            /\ cslot' = Len(index)
            /\ cpc' = "start" /\ cerr' = cerr
            /\ cdone' = cdone \cup {"vector"}
       ELSE /\ cpc' = "mark" /\ cerr' = "faiss"
            /\ UNCHANGED <<index, cslot, cdone>>
    /\ UNCHANGED <<dbVars, id_mapping, metadata, cdoc, cconn, cstart, othersC>>

\* add_vectors lines 108-109: start_id = self.index.ntotal - len(vectors)
ProcessAddStart ==
    /\ cpc = "start"
    /\ cstart' = Len(index) - 1
    /\ cpc' = "map"
    /\ UNCHANGED <<dbVars, storeVars, cdoc, cconn, cerr, cslot, cdone, othersC>>

\* add_vectors lines 112-115 for the single chunk of the consumer
ProcessAddMap ==
    /\ cpc = "map"
    /\ LET st == MapWrite(CurStore, cstart, ChunkId(cdoc, 0), Meta)
       IN  /\ metadata' = st.metadata
           /\ id_mapping' = st.id_mapping
    /\ cpc' = "mark"
    /\ cstart' = 0 /\ cslot' = 0
    /\ cdone' = cdone \cup {"mapping"}
    /\ deleted' = deleted \ {ChunkId(cdoc, 0)}
    /\ UNCHANGED <<dbVars, index, cdoc, cconn, cerr, phase, ops, queue, diskVars, syncVars,
                   apiVars, saveVars, call>>

\* lines 118-122: UPDATE documents SET processing_status = 'indexed'
ProcessMark ==
    /\ cpc = "mark"
    /\ IF dbUp
       THEN /\ processing_status' = [processing_status EXCEPT ![cdoc] =
                                        IF @ = "absent" THEN @ ELSE "indexed"]
            /\ cpc' = "close" /\ cerr' = cerr
       ELSE /\ cpc' = "except" /\ cerr' = "db"
            /\ UNCHANGED processing_status
    /\ UNCHANGED <<dbUp, pool, has_text, document_embeddings, document_chunks,
                   storeVars, cdoc, cconn, cstart, cslot, cdone, othersC>>

\* lines 126-143: except Exception: if conn: try UPDATE ... 'failed' except: pass
ProcessExcept ==
    /\ cpc = "except"
    /\ processing_status' =
          IF cconn /\ dbUp /\ processing_status[cdoc] # "absent"
          THEN [processing_status EXCEPT ![cdoc] = "failed"]
          ELSE processing_status
    /\ cpc' = "close"
    /\ UNCHANGED <<dbUp, pool, has_text, document_embeddings, document_chunks,
                   storeVars, cdoc, cconn, cstart, cerr, cslot, cdone, othersC>>

\* lines 144-147: finally: if conn: await conn.close(); closing a connection
\* to a server that went away may raise, and that exception leaves
\* process_document
ProcessClose(raises) ==
    /\ cpc = "close"
    /\ raises => (cconn /\ ~dbUp)
    /\ cpc' = IF raises THEN "nack" ELSE "ack"
    /\ UNCHANGED <<dbVars, storeVars, cdoc, cconn, cstart, cerr, cslot, cdone, othersC>>

\* callback line 164: ch.basic_ack
CallbackAck ==
    /\ cpc = "ack"
    /\ cpc' = "idle" /\ cdoc' = NoDoc /\ cconn' = FALSE /\ cerr' = "none"
    /\ cdone' = {}
    /\ UNCHANGED <<dbVars, storeVars, cstart, cslot, othersC>>

\* callback lines 167-170: ch.basic_nack(requeue=True)
CallbackNack ==
    /\ cpc = "nack"
    /\ queue' = [queue EXCEPT ![cdoc] = @ + 1]
    /\ cpc' = "idle" /\ cdoc' = NoDoc /\ cconn' = FALSE /\ cerr' = "none"
    /\ cdone' = {}
    /\ UNCHANGED <<phase, ops, dbVars, storeVars, diskVars, syncVars, cstart, cslot, apiVars, saveVars,
                   deleted, call>>

Consumer ==
    \/ \E d \in Docs : Callback(d)
    \/ ProcessConnect \/ ProcessFetch \/ ProcessMarkShort
    \/ \E ok \in BOOLEAN : ProcessEmbed(ok)
    \/ ProcessStore
    \/ \E ok \in BOOLEAN : ProcessAddIndex(ok)
    \/ ProcessAddStart \/ ProcessAddMap \/ ProcessMark \/ ProcessExcept
    \/ \E raises \in BOOLEAN : ProcessClose(raises)
    \/ CallbackAck \/ CallbackNack

(* ------------- api/v1/endpoints/indexer.py and search.py --------------- *)
\* The event loop runs one handler's synchronous section at a time; the
\* consumer thread and the save thread run between any two of its steps.
othersA == <<phase, queue, diskVars, syncVars, consumerVars, deleted, call>>

\* chunk_ids of index_document, line 73
RequestChunkIds(d, req) == [j \in 1..Len(req) |-> ChunkId(d, req[j])]

\* index_document lines 66-89: the request is read and the texts are embedded;
\* generate_embeddings raising is answered 500, and so is the
\* HTTPException(400) of an empty chunk list (lines 68-69), which is raised
\* inside the try block and caught by its `except Exception` (lines 133-139)
IndexDocument(d, req, embed_ok) ==
    /\ phase = "running" /\ apc = "idle"
    /\ ops < MaxOps /\ ops' = ops + 1
    /\ pending_saves < MaxSaves
    /\ adoc' = d
    /\ achunks' = RequestChunkIds(d, req)
    /\ IF req = <<>> THEN apc' = "done" /\ aret' = "500"
       ELSE IF embed_ok THEN apc' = "add" /\ aret' = "none"
       ELSE apc' = "done" /\ aret' = "500"
    /\ UNCHANGED <<dbVars, storeVars, astart, ai, s_seen, s_result, s_torn,
                   saveVars, othersA>>

\* line 93 -> add_vectors line 105; an exception leaves index_document as a 500
IndexAddIndex(ok) ==
    /\ apc = "add"
    /\ IF ok
       THEN /\ Len(index) + Len(achunks) <= MaxVectors
            /\ index' = IndexAdd(index, achunks)
            /\ apc' = "start" /\ aret' = aret
       ELSE /\ apc' = "done" /\ aret' = "500"
            /\ UNCHANGED index
    /\ UNCHANGED <<dbVars, id_mapping, metadata, adoc, achunks, astart, ai,
                   s_seen, s_result, s_torn, saveVars, ops, othersA>>

\* add_vectors lines 108-109
IndexAddStart ==
    /\ apc = "start"
    /\ astart' = Len(index) - Len(achunks)
    /\ ai' = 1
    /\ apc' = "map"
    /\ UNCHANGED <<dbVars, storeVars, adoc, achunks, aret, s_seen, s_result,
                   s_torn, saveVars, ops, othersA>>

\* add_vectors lines 112-115, iteration ai
IndexAddMap ==
    /\ apc = "map"
    /\ LET st == MapWrite(CurStore, astart + ai - 1, achunks[ai], Meta)
       IN  /\ metadata' = st.metadata
           /\ id_mapping' = st.id_mapping
    /\ IF ai < Len(achunks) THEN ai' = ai + 1 /\ apc' = "map"
       ELSE ai' = 1 /\ apc' = "save"
    /\ deleted' = deleted \ {achunks[ai]}
    /\ UNCHANGED <<dbVars, index, adoc, achunks, astart, aret, s_seen, s_result,
                   s_torn, saveVars, ops, phase, queue, diskVars, syncVars, consumerVars, call>>

\* database.py save_document_chunk: a placeholder documents row with status
\* 'indexed' and empty content when none exists, then the chunk upsert
SaveDocumentChunk(status, rows, c) ==
    [processing_status |-> [status EXCEPT ![DocOf(c)] = IF @ = "absent" THEN "indexed" ELSE @],
     document_chunks |-> rows \cup {c}]

\* index_document lines 97-113: one save_document_chunk per chunk (a failure
\* is logged and the loop continues), then background_tasks.add_task and the
\* "completed" response
IndexSaveChunk ==
    /\ apc = "save"
    /\ IF pool /\ dbUp
       THEN LET r == SaveDocumentChunk(processing_status, document_chunks, achunks[ai])
            IN  /\ processing_status' = r.processing_status
                /\ document_chunks' = r.document_chunks
       ELSE UNCHANGED <<processing_status, document_chunks>>
    /\ IF ai < Len(achunks)
       THEN ai' = ai + 1 /\ apc' = "save" /\ aret' = aret /\ UNCHANGED pending_saves
       ELSE ai' = 0 /\ apc' = "done" /\ aret' = "completed"
            /\ pending_saves' = pending_saves + 1
    /\ UNCHANGED <<dbUp, pool, has_text, document_embeddings, storeVars, adoc,
                   achunks, astart, s_seen, s_result, s_torn, spc, ops, othersA>>

\* chunk_ids_to_delete of delete_document_index (lines 195-198), in dict order
RECURSIVE SeqOfSet(_)
SeqOfSet(S) ==
    IF S = {} THEN <<>>
    ELSE LET first == CHOOSE c \in S : \A o \in S : RowKey(c) <= RowKey(o)
         IN  <<first>> \o SeqOfSet(S \ {first})

ChunkIdsToDelete(md, d) == SeqOfSet({c \in DOMAIN md : StartsWithDoc(c, d)})

\* the handler without its 404: an empty list is deleted and reported as a success
DeleteDocumentIndexNoCheck(d) ==
    /\ phase = "running" /\ apc = "idle"
    /\ ops < MaxOps /\ ops' = ops + 1
    /\ pending_saves < MaxSaves
    /\ adoc' = d
    /\ achunks' = ChunkIdsToDelete(metadata, d)
    /\ IF achunks' = <<>>
       THEN apc' = "done" /\ aret' = "deleted" /\ ai' = 0 /\ pending_saves' = pending_saves + 1
       ELSE apc' = "delete" /\ aret' = "none" /\ ai' = 1 /\ UNCHANGED pending_saves
    /\ UNCHANGED <<dbVars, storeVars, astart, s_seen, s_result, s_torn, spc, othersA>>

\* delete_document_index lines 191-201: 404 when the document has no chunk
DeleteDocumentIndex(d) ==
    /\ phase = "running" /\ apc = "idle"
    /\ ops < MaxOps /\ ops' = ops + 1
    /\ pending_saves < MaxSaves
    /\ adoc' = d
    /\ achunks' = ChunkIdsToDelete(metadata, d)
    /\ IF achunks' = <<>> THEN apc' = "done" /\ aret' = "404" /\ ai' = 0
       ELSE apc' = "delete" /\ aret' = "none" /\ ai' = 1
    /\ UNCHANGED <<dbVars, storeVars, astart, s_seen, s_result, s_torn,
                   saveVars, othersA>>

\* delete_vectors lines 212-215, iteration ai; after the last one
\* background_tasks.add_task(save_index) and the "deleted" response
DeleteStep ==
    /\ apc = "delete"
    /\ LET st == DeleteOne(CurStore, achunks[ai])
       IN  /\ metadata' = st.metadata
           /\ id_mapping' = st.id_mapping
    /\ IF ai < Len(achunks)
       THEN ai' = ai + 1 /\ apc' = "delete" /\ aret' = aret /\ UNCHANGED pending_saves
       ELSE ai' = 0 /\ apc' = "done" /\ aret' = "deleted"
            /\ pending_saves' = pending_saves + 1
    /\ deleted' = IF ai < Len(achunks) THEN deleted
                  ELSE deleted \cup {achunks[j] : j \in 1..Len(achunks)}
    /\ UNCHANGED <<dbVars, index, adoc, achunks, astart, s_seen, s_result,
                   s_torn, spc, ops, phase, queue, diskVars, syncVars, consumerVars, call>>

\* the slot whose vector the consumer thread has added and not yet mapped
ConsumerUnmapped == IF cpc \in {"start", "map"} THEN {cslot} ELSE {}

\* VectorStore.search lines 140-149: empty index, else index.search
SearchStart ==
    /\ phase = "running" /\ apc = "idle"
    /\ ops < MaxOps /\ ops' = ops + 1
    /\ IF Len(index) = 0
       THEN s_seen' = {} /\ apc' = "done" /\ aret' = "results"
       ELSE s_seen' = 0..(Len(index) - 1) /\ apc' = "lookup" /\ aret' = "none"
    /\ UNCHANGED <<dbVars, storeVars, adoc, achunks, astart, ai, s_result, s_torn,
                   saveVars, othersA>>

\* the (chunk_id) list search builds from the slots index.search returned:
\* a slot without a mapping is skipped with a warning (lines 160-163)
RECURSIVE Resolve(_, _, _)
Resolve(im, slots, s) ==
    IF slots = {} THEN <<>>
    ELSE IF s \in slots
         THEN (IF s \in DOMAIN im THEN <<im[s]>> ELSE <<>>) \o Resolve(im, slots \ {s}, s + 1)
         ELSE Resolve(im, slots, s + 1)

\* the result loop without the seen_chunks test
DeduplicateNothing(search_results, seen_chunks, i) ==
    SubSeq(search_results, i, Len(search_results))

\* semantic_search lines 79-108 without filters: a chunk_id already in
\* seen_chunks is skipped
RECURSIVE Deduplicate(_, _, _)
Deduplicate(search_results, seen_chunks, i) ==
    IF i > Len(search_results) THEN <<>>
    ELSE IF search_results[i] \in seen_chunks
         THEN Deduplicate(search_results, seen_chunks, i + 1)
         ELSE <<search_results[i]>>
              \o Deduplicate(search_results, seen_chunks \cup {search_results[i]}, i + 1)

\* VectorStore.search lines 151-174, then the result loop of semantic_search.
\* s_torn records that the search saw a vector of an add that had not yet
\* written its mapping.
SearchLookup ==
    /\ apc = "lookup"
    /\ s_result' = Deduplicate(Resolve(id_mapping, s_seen, 0), {}, 1)
    /\ s_torn' = (\E s \in s_seen \cap ConsumerUnmapped : s \notin DOMAIN id_mapping)
    /\ apc' = "done" /\ aret' = "results"
    /\ UNCHANGED <<dbVars, storeVars, adoc, achunks, astart, ai, s_seen, saveVars, ops, othersA>>

\* the response has been sent; the handler's locals are gone
HandlerReturn ==
    /\ apc = "done"
    /\ apc' = "idle" /\ adoc' = NoDoc /\ achunks' = <<>> /\ astart' = 0 /\ ai' = 0
    /\ aret' = "none" /\ s_seen' = {} /\ s_result' = <<>> /\ s_torn' = FALSE
    /\ UNCHANGED <<dbVars, storeVars, saveVars, ops, othersA>>

Api ==
    \/ \E d \in Docs, req \in Requests, ok \in BOOLEAN : IndexDocument(d, req, ok)
    \/ \E ok \in BOOLEAN : IndexAddIndex(ok)
    \/ IndexAddStart \/ IndexAddMap \/ IndexSaveChunk
    \/ \E d \in Docs : DeleteDocumentIndex(d)
    \/ DeleteStep
    \/ SearchStart \/ SearchLookup
    \/ HandlerReturn

(* --------------- background task vector_store.save_index --------------- *)
othersS == <<phase, ops, dbVars, queue, storeVars, syncVars, consumerVars, apiVars, deleted, call>>

\* save_index line 67: faiss.write_index(self.index, self.index_path)
SaveWriteIndex ==
    /\ phase = "running" /\ spc = "idle"
    /\ pending_saves > 0
    /\ pending_saves' = pending_saves - 1
    /\ disk_index' = IndexFile(CurStore)
    /\ spc' = "wrote_index"
    /\ UNCHANGED <<disk_meta, othersS>>

\* save_index lines 70-77: the maps are read and dumped
SaveWriteMeta ==
    /\ spc = "wrote_index"
    /\ disk_meta' = MetaFile(CurStore)
    /\ spc' = "idle"
    /\ UNCHANGED <<disk_index, pending_saves, othersS>>

Saver == SaveWriteIndex \/ SaveWriteMeta

(* ------------------------------ system --------------------------------- *)
Environment ==
    \/ DbDown \/ DbRecover
    \/ \E d \in Docs, text \in BOOLEAN : UploadDocument(d, text)
    \/ \E d \in Docs : IngestDocument(d)

Lifespan ==
    \/ \E force \in BOOLEAN, fail \in SyncFailures : LifespanSync(force, fail)
    \/ LifespanStartConsumer
    \/ Restart
    \/ LifespanShutdown \/ ProcessStart

\* The consumer thread, the event loop and the save thread interleave freely;
\* database outages, uploads and restarts happen between any two steps.
Next == Environment \/ Lifespan \/ Consumer \/ Api \/ Saver

Spec == Init /\ [][Next]_vars

(* ---------------- the VectorStore object called directly --------------- *)
\* Calls of add_vectors, delete_vectors, clear_index and search on one
\* VectorStore, and rebuilds of it by sync_index_with_database, by a single
\* caller, with arguments of any shape: aret is "returned" or "raised", pre the
\* store the call found.
MaxArgs == 2         \* longest argument list of a direct call

\* chunk_ids a direct call names
ArgIds == {ChunkId(d, 0) : d \in Docs}

ArgLists == UNION {[1..n -> ArgIds] : n \in 0..MaxArgs}

MetaLists == {[j \in 1..n |-> Meta] : n \in 0..MaxArgs}

\* n vectors: the embeddings of the first chunks of chunk_ids, then vectors of
\* no chunk
VectorArgs(n, chunk_ids) ==
    [j \in 1..n |-> IF j <= Len(chunk_ids) THEN chunk_ids[j] ELSE NoDoc]

othersU == <<phase, ops, dbVars, queue, sync_result, consumerVars, apc, adoc,
             achunks, astart, ai, s_seen, s_torn, saveVars, call>>

AddVectorsCall(vectors, chunk_ids, metadata_list, faiss_ok) ==
    /\ Len(index) + Len(vectors) <= MaxVectors
    /\ LET r == AddVectors(CurStore, vectors, chunk_ids, metadata_list, faiss_ok)
       IN  /\ index' = r.store.index
           /\ id_mapping' = r.store.id_mapping
           /\ metadata' = r.store.metadata
           /\ aret' = IF r.raised THEN "raised" ELSE "returned"
           /\ deleted' = deleted \ {r.store.id_mapping[s] :
                                        s \in {t \in DOMAIN r.store.id_mapping : t >= Len(index)}}
    /\ pre' = CurStore
    /\ s_result' = <<>>
    /\ UNCHANGED <<diskVars, othersU>>

DeleteVectorsCall(chunk_ids) ==
    /\ LET r == DeleteVectors(CurStore, chunk_ids)
       IN  /\ index' = r.store.index
           /\ id_mapping' = r.store.id_mapping
           /\ metadata' = r.store.metadata
    /\ aret' = "returned"
    /\ deleted' = deleted \cup {chunk_ids[j] : j \in 1..Len(chunk_ids)}
    /\ pre' = CurStore
    /\ s_result' = <<>>
    /\ UNCHANGED <<diskVars, othersU>>

\* clear_index: a new empty index, empty maps, both files removed
ClearIndexCall ==
    /\ index' = <<>> /\ id_mapping' = EmptyMap /\ metadata' = EmptyMap
    /\ disk_index' = NoIndexFile /\ disk_meta' = NoMetaFile
    /\ aret' = "returned"
    /\ pre' = CurStore
    /\ s_result' = <<>>
    /\ UNCHANGED <<deleted, othersU>>

\* the rebuild of sync_index_with_database (lines 94-152) from the rows of
\* the chunk_ids rows: the store is cleared, add_vectors, save_index
RebuildCall(rows) ==
    /\ rows # <<>> /\ Len(rows) <= MaxVectors
    /\ LET new == Rebuilt(CurStore, rows)
       IN  /\ index' = new.index /\ id_mapping' = new.id_mapping
           /\ metadata' = new.metadata
           /\ disk_index' = IndexFile(new) /\ disk_meta' = MetaFile(new)
    /\ aret' = "returned"
    /\ deleted' = deleted \ {rows[j] : j \in 1..Len(rows)}
    /\ pre' = CurStore
    /\ s_result' = <<>>
    /\ UNCHANGED othersU

\* search with k >= ntotal and no threshold: every slot comes back from
\* index.search, the result holds the chunk_id of each mapped one
SearchCall ==
    /\ s_result' = Resolve(id_mapping, 0..(Len(index) - 1), 0)
    /\ aret' = "results"
    /\ pre' = CurStore
    /\ UNCHANGED <<storeVars, diskVars, deleted, othersU>>

NextStore ==
    \/ \E n \in 0..MaxArgs, chunk_ids \in ArgLists, metadata_list \in MetaLists,
          faiss_ok \in BOOLEAN :
            AddVectorsCall(VectorArgs(n, chunk_ids), chunk_ids, metadata_list, faiss_ok)
    \/ \E chunk_ids \in ArgLists : DeleteVectorsCall(chunk_ids)
    \/ ClearIndexCall
    \/ \E rows \in ArgLists : RebuildCall(rows)
    \/ SearchCall

SpecStore == Init /\ [][NextStore]_vars

(* --------------- VectorStore.search with scores (pure) ----------------- *)
\* inner products of the query with a stored vector, in units of 1.0
Scores == {-1, 0, 1}

\* threshold: Optional[float]; <<>> is None, <<t>> the float t
Thresholds == {<<>>, <<0>>, <<1>>}

\* k of search (limit of the request)
Limits == {1, 2}

\* bool(x) of an Optional[float]: None and 0.0 are false
Truthy(threshold) == threshold # <<>> /\ threshold[1] # 0

\* index.search(query_vector, n): the n slots of highest score, best first
RECURSIVE FaissSearch(_, _, _)
FaissSearch(scores, slots, n) ==
    IF n = 0 \/ slots = {} THEN <<>>
    ELSE LET best == CHOOSE s \in slots :
                         \A o \in slots : scores[s + 1] > scores[o + 1]
                                           \/ (scores[s + 1] = scores[o + 1] /\ s <= o)
         IN  <<best>> \o FaissSearch(scores, slots \ {best}, n - 1)

\* search lines 151-168: the loop over zip(scores[0], indices[0]) from entry i
RECURSIVE SearchLoop(_, _, _, _, _)
SearchLoop(st, scores, indices, threshold, i) ==
    IF i > Len(indices) THEN <<>>
    ELSE LET idx == indices[i]
             score == scores[idx + 1]
             rest == SearchLoop(st, scores, indices, threshold, i + 1)
         IN  IF Truthy(threshold) /\ score < threshold[1] THEN rest
             ELSE IF idx \notin DOMAIN st.id_mapping THEN rest
             ELSE <<[chunk_id |-> st.id_mapping[idx], score |-> score]>> \o rest

\* search(query_vector, k, threshold), lines 140-170; scores[s + 1] is the
\* inner product of the query with the vector of slot s
Search(st, scores, k, threshold) ==
    IF Len(st.index) = 0 THEN <<>>
    ELSE SearchLoop(st, scores,
                    FaissSearch(scores, 0..(Len(st.index) - 1), Min(k, Len(st.index))),
                    threshold, 1)

\* a store of the vectors ix whose slots in keep are mapped (the others were
\* soft-deleted)
SearchStore(ix, keep) ==
    Store(ix, [s \in keep |-> ix[s + 1]], [c \in {ix[s + 1] : s \in keep} |-> Meta])

\* stores a search can find: up to two vectors, any of them soft-deleted
SearchStores ==
    UNION {{SearchStore(ix, keep) : keep \in SUBSET (0..(Len(ix) - 1))} :
              ix \in {<<>>, <<ChunkId(<<"a">>, 0)>>,
                       <<ChunkId(<<"a">>, 0), ChunkId(<<"b">>, 0)>>}}

\* one VectorStore, one query (given by its score against each slot), one
\* limit and one threshold
InitSearch ==
    /\ phase = "startup" /\ ops = 0 /\ dbUp = TRUE /\ pool = FALSE
    /\ processing_status = [d \in Docs |-> "absent"]
    /\ has_text = [d \in Docs |-> FALSE]
    /\ document_embeddings = {} /\ document_chunks = {}
    /\ queue = [d \in Docs |-> 0]
    /\ \E st \in SearchStores :
           /\ index = st.index /\ id_mapping = st.id_mapping /\ metadata = st.metadata
           /\ \E scores \in [1..Len(st.index) -> Scores], k \in Limits,
                 threshold \in Thresholds :
                  call = [fn |-> "search", scores |-> scores, k |-> k,
                          threshold |-> threshold, returned |-> FALSE, ret |-> <<>>]
    /\ disk_index = NoIndexFile /\ disk_meta = NoMetaFile
    /\ sync_result = "none" /\ pre = EmptyStore
    /\ cpc = "stopped" /\ cdoc = NoDoc /\ cconn = FALSE /\ cstart = 0 /\ cerr = "none"
    /\ cslot = 0 /\ cdone = {}
    /\ deleted = {}
    /\ apc = "idle" /\ adoc = NoDoc /\ achunks = <<>> /\ astart = 0 /\ ai = 0 /\ aret = "none"
    /\ pending_saves = 0 /\ spc = "idle"
    /\ s_seen = {} /\ s_result = <<>> /\ s_torn = FALSE

\* vector_store.search(query_vector, k, threshold) returns
SearchThresholdCall ==
    /\ call.fn = "search" /\ ~call.returned
    /\ call' = [call EXCEPT !.returned = TRUE,
                            !.ret = Search(CurStore, call.scores, call.k, call.threshold)]
    /\ UNCHANGED <<phase, ops, dbVars, queue, storeVars, diskVars, syncVars, consumerVars,
                   apiVars, saveVars, deleted>>

SpecSearch == InitSearch /\ [][SearchThresholdCall]_vars

(* ------------------- core/chunker.py: TextChunker ---------------------- *)
CHUNK_SIZE == 512
CHUNK_OVERLAP == 50
MIN_CHUNK_LENGTH == 50

MaxSentences == 3    \* most sentences of a text

\* A text is the sequence of its sentences, separated by one space.  Of each
\* sentence, len is its number of characters once every run of whitespace
\* inside it is a single space, and extra the surplus characters of those runs.
SentenceLens == {5, 20, 30, 60, 500}

ExtraSpaces == {0, 40}

Texts == UNION {[1..n -> [len : SentenceLens, extra : ExtraSpaces]] : n \in 0..MaxSentences}

RECURSIVE SumOf(_, _)
SumOf(lens, i) == IF i > Len(lens) THEN 0 ELSE lens[i] + SumOf(lens, i + 1)

\* len(" ".join(parts)) for parts of the lengths lens
JoinLen(lens) == IF Len(lens) = 0 THEN 0 ELSE SumOf(lens, 1) + Len(lens) - 1

\* len(text.strip()) of line 38
StrippedLen(text) == JoinLen([i \in 1..Len(text) |-> text[i].len + text[i].extra])

\* _clean_text: re.sub(r'\s+', ' ', text.strip()) leaves single spaces
CleanText(text) == [i \in 1..Len(text) |-> [len |-> text[i].len, extra |-> 0]]

\* nltk.sent_tokenize(text): the sentences, here their lengths; a sentence is
\* named by its position
SentTokenize(text) == [i \in 1..Len(text) |-> text[i].len + text[i].extra]

\* _get_overlap_sentences, the loop over reversed(sentences) from entry j:
\* overlap_text grows by the sentence and one space
RECURSIVE OverlapFrom(_, _, _, _)
OverlapFrom(sentences, lens, j, overlap_len) ==
    IF j = 0 THEN <<>>
    ELSE IF overlap_len + lens[sentences[j]] <= CHUNK_OVERLAP
         THEN Append(OverlapFrom(sentences, lens, j - 1, overlap_len + lens[sentences[j]] + 1),
                     sentences[j])
         ELSE <<>>




\* an overlap that carries every sentence of the chunk over
GetEverySentence(sentences, lens) == sentences

\* _get_overlap_sentences(sentences): sentences from the end while they fit
\* in CHUNK_OVERLAP characters
GetOverlapSentences(sentences, lens) == OverlapFrom(sentences, lens, Len(sentences), 0)

\* _create_chunk: content is given by its length (character_count)
CreateChunk(content_len, chunk_index, sentences) ==
    [index |-> chunk_index, sentences |-> sentences, character_count |-> content_len]

\* chunk_text lines 53-85 from sentence i on.  current is current_chunk:
\* len its length, lead the space it starts with (line 70 with no overlap
\* sentence), so that len - lead is len(current_chunk.strip())
RECURSIVE ChunkLoop(_, _, _, _, _, _)
ChunkLoop(lens, i, current, chunk_sentences, chunk_index, chunks) ==
    IF i > Len(lens)
    THEN IF current.len > 0 /\ current.len - current.lead >= MIN_CHUNK_LENGTH
         THEN Append(chunks, CreateChunk(current.len - current.lead, chunk_index, chunk_sentences))
         ELSE chunks
    ELSE LET potential_chunk == IF current.len > 0 THEN current.len + 1 + lens[i] ELSE lens[i]
         IN  IF potential_chunk > CHUNK_SIZE /\ current.len > 0
             THEN LET saved == current.len - current.lead >= MIN_CHUNK_LENGTH
                      overlap_sentences == GetOverlapSentences(chunk_sentences, lens)
                      overlap_len == JoinLen([j \in 1..Len(overlap_sentences) |->
                                                 lens[overlap_sentences[j]]])
                  IN  ChunkLoop(lens, i + 1,
                                [len |-> overlap_len + 1 + lens[i],
                                 lead |-> IF overlap_sentences = <<>> THEN 1 ELSE 0],
                                Append(overlap_sentences, i),
                                IF saved THEN chunk_index + 1 ELSE chunk_index,
                                IF saved
                                THEN Append(chunks, CreateChunk(current.len - current.lead,
                                                                chunk_index, chunk_sentences))
                                ELSE chunks)
             ELSE ChunkLoop(lens, i + 1, [len |-> potential_chunk, lead |-> current.lead],
                            Append(chunk_sentences, i), chunk_index, chunks)

\* chunk_text(text), lines 38-87
ChunkText(text) ==
    IF Len(text) = 0 \/ StrippedLen(text) < MIN_CHUNK_LENGTH THEN <<>>
    ELSE ChunkLoop(SentTokenize(CleanText(text)), 1, [len |-> 0, lead |-> 0], <<>>, 0, <<>>)

\* process_document line 66: len(text_content.strip()) < 10
MIN_TEXT_LENGTH == 10

\* process_document lines 94 and 106: text_content[:1000]
CONTENT_LIMIT == 1000

\* process_document lines 66-112 on a document whose content is text: what it
\* writes to document_embeddings and adds to the vector store.  It embeds the
\* whole text and writes one entry, of chunk_index 0, whose content is the
\* first CONTENT_LIMIT characters; text_chunker is not called
ProcessDocumentEntries(text) ==
    IF Len(text) = 0 \/ StrippedLen(text) < MIN_TEXT_LENGTH THEN <<>>
    ELSE <<[index |-> 0, character_count |-> Min(StrippedLen(text), CONTENT_LIMIT)]>>

\* one call of text_chunker.chunk_text on a text, or of process_document on a
\* document with that text
InitChunker ==
    /\ phase = "startup" /\ ops = 0 /\ dbUp = TRUE /\ pool = FALSE
    /\ processing_status = [d \in Docs |-> "absent"]
    /\ has_text = [d \in Docs |-> FALSE]
    /\ document_embeddings = {} /\ document_chunks = {}
    /\ queue = [d \in Docs |-> 0]
    /\ index = <<>> /\ id_mapping = EmptyMap /\ metadata = EmptyMap
    /\ \E text \in Texts, fn \in {"chunk_text", "process_document"} :
           call = [fn |-> fn, text |-> text, returned |-> FALSE, ret |-> <<>>]
    /\ disk_index = NoIndexFile /\ disk_meta = NoMetaFile
    /\ sync_result = "none" /\ pre = EmptyStore
    /\ cpc = "stopped" /\ cdoc = NoDoc /\ cconn = FALSE /\ cstart = 0 /\ cerr = "none"
    /\ cslot = 0 /\ cdone = {}
    /\ deleted = {}
    /\ apc = "idle" /\ adoc = NoDoc /\ achunks = <<>> /\ astart = 0 /\ ai = 0 /\ aret = "none"
    /\ pending_saves = 0 /\ spc = "idle"
    /\ s_seen = {} /\ s_result = <<>> /\ s_torn = FALSE

\* chunk_text(text) returns
ChunkTextCall ==
    /\ call.fn = "chunk_text" /\ ~call.returned
    /\ call' = [call EXCEPT !.returned = TRUE, !.ret = ChunkText(call.text)]
    /\ UNCHANGED <<phase, ops, dbVars, queue, storeVars, diskVars, syncVars, consumerVars,
                   apiVars, saveVars, deleted>>

\* process_document has written its entries for the document
ProcessDocumentCall ==
    /\ call.fn = "process_document" /\ ~call.returned
    /\ call' = [call EXCEPT !.returned = TRUE, !.ret = ProcessDocumentEntries(call.text)]
    /\ UNCHANGED <<phase, ops, dbVars, queue, storeVars, diskVars, syncVars, consumerVars,
                   apiVars, saveVars, deleted>>

SpecChunker == InitChunker /\ [][ChunkTextCall \/ ProcessDocumentCall]_vars

(* ------------- delete_document_index on any document ids --------------- *)
\* document ids of the Indexing API (any string): "a", "b", and "a_chunk_x",
\* whose chunk ids start with the chunk id prefix of "a"
DeleteDocs == {<<"a">>, <<"a", "x">>, <<"b">>}

DeleteChunkIds == {ChunkId(d, i) : d \in DeleteDocs, i \in ChunkIndexes}

\* one VectorStore holding some chunks of these documents, and one
\* DELETE index(document_id) request
InitDelete ==
    /\ phase = "running" /\ ops = 0 /\ dbUp = TRUE /\ pool = TRUE
    /\ processing_status = [d \in Docs |-> "absent"]
    /\ has_text = [d \in Docs |-> FALSE]
    /\ document_embeddings = {} /\ document_chunks = {}
    /\ queue = [d \in Docs |-> 0]
    /\ \E S \in SUBSET DeleteChunkIds :
           LET st == SearchStore(SeqOfSet(S), 0..(Cardinality(S) - 1))
           IN  index = st.index /\ id_mapping = st.id_mapping /\ metadata = st.metadata
    /\ \E d \in DeleteDocs :
           call = [fn |-> "delete_document_index", document_id |-> d,
                   returned |-> FALSE, ret |-> "none"]
    /\ disk_index = NoIndexFile /\ disk_meta = NoMetaFile
    /\ sync_result = "none" /\ pre = EmptyStore
    /\ cpc = "idle" /\ cdoc = NoDoc /\ cconn = FALSE /\ cstart = 0 /\ cerr = "none"
    /\ cslot = 0 /\ cdone = {}
    /\ deleted = {}
    /\ apc = "idle" /\ adoc = NoDoc /\ achunks = <<>> /\ astart = 0 /\ ai = 0 /\ aret = "none"
    /\ pending_saves = 0 /\ spc = "idle"
    /\ s_seen = {} /\ s_result = <<>> /\ s_torn = FALSE

\* delete_document_index(document_id), lines 194-219, run alone: the chunk ids
\* that start with the prefix, 404 when there is none, else delete_vectors
DeleteDocumentIndexCall ==
    /\ call.fn = "delete_document_index" /\ ~call.returned
    /\ LET chunk_ids_to_delete == ChunkIdsToDelete(metadata, call.document_id)
           st == DeleteVectors(CurStore, chunk_ids_to_delete).store
       IN  IF chunk_ids_to_delete = <<>>
           THEN /\ call' = [call EXCEPT !.returned = TRUE, !.ret = "404"]
                /\ UNCHANGED storeVars
           ELSE /\ call' = [call EXCEPT !.returned = TRUE, !.ret = "deleted"]
                /\ index' = st.index /\ id_mapping' = st.id_mapping
                /\ metadata' = st.metadata
    /\ pre' = CurStore
    /\ UNCHANGED <<phase, ops, dbVars, queue, diskVars, sync_result, consumerVars,
                   apiVars, saveVars, deleted>>

SpecDelete == InitDelete /\ [][DeleteDocumentIndexCall]_vars

(* ------------------------------ claims --------------------------------- *)
\* the consumer thread is between the first and the last write of add_vectors
ConsumerMutating == cpc \in {"start", "map"}

\* the event loop is between the first and the last write of add_vectors or
\* of delete_vectors
ApiMutating == apc \in {"start", "map"} \/ (apc = "delete" /\ ai > 1)

\* C1: the slot -> chunk_id map is injective in every reachable state: no two
\* slots are mapped to the same chunk_id, also after a chunk_id is added again.
C1_SlotMapInjective ==
    \A s, t \in DOMAIN id_mapping : id_mapping[s] = id_mapping[t] => s = t

\* C2: whenever reconcile(force=false) returns in_sync, the chunk_ids reachable
\* in the Vector Index are exactly the chunk_ids the store holds for documents
\* marked indexed.
C2_InSyncMeansSameChunks ==
    (phase = "synced" /\ sync_result = "in_sync") => Reachable(CurStore) = Eligible

\* C3: when reconcile had to rebuild (force, or differing counts) and returned
\* without error, the index holds exactly one slot per eligible chunk, in
\* (document_id, chunk_index) order, and nothing of its previous contents;
\* with no eligible chunk it is empty.
C3_RebuildIsExact ==
    (phase = "synced" /\ sync_result \in {"synced", "no_embeddings"})
        => /\ index = OrderedRows(Eligible)
           /\ id_mapping = [s \in 0..(Len(index) - 1) |-> index[s + 1]]
           /\ DOMAIN metadata = Eligible

\* C4: after a reconcile that failed, the active Vector Index is the complete
\* index the reconcile found.
C4_FailedRebuildKeepsIndex ==
    (phase = "synced" /\ sync_result = "error") => CurStore = pre

\* C5: when add raises, the vectors, the slot map and the metadata map are
\* exactly as before the call.
C5_AddIsAllOrNothing ==
    aret = "raised" => CurStore = pre

\* C6: no reachable state has two mutations of the Vector Index in flight (the
\* consumer's add and a handler's add or delete between their first and last
\* write).
C6_OneMutationInFlight ==
    ~(ConsumerMutating /\ ApiMutating)

\* C7: no search returns after having seen a vector of an add whose mapping
\* was not yet written.
C7_SearchSeesWholeMutations ==
    ~s_torn

\* C8: while a background save_index is between writing the vector file and
\* writing the maps, no mutation is in flight and no step changes the index
\* or its maps.
C8_SaveExcludesMutations ==
    [][/\ spc' = "wrote_index" => ~(ConsumerMutating' \/ ApiMutating')
       /\ (spc = "wrote_index" /\ phase' = "running") => UNCHANGED storeVars]_vars

\* C9: at the moment the consumer acknowledges an event for a document that
\* exists, the document is marked indexed or failed.
C9_AckOnlyAfterMarking ==
    (cpc = "ack" /\ processing_status[cdoc] # "absent")
        => processing_status[cdoc] \in {"indexed", "failed"}

\* C10: an event during whose processing the database was unreachable is not
\* acknowledged.
C10_NoAckAfterDatabaseFailure ==
    cpc = "ack" => cerr # "db"

\* the vectors of the index that came from chunk c
VectorsOf(c) == {s \in 1..Len(index) : index[s] = c}

\* C11: when a step of ingesting a document with sufficient text fails, the
\* document ends marked failed, and the row and the vector the attempt wrote
\* are gone.  Stated for the steps that follow the embedding: the Chunk Store
\* write, the Vector Index add and the status update.
C11_FailedIngestionLeavesNothing ==
    (/\ cpc = "close" /\ has_text[cdoc] /\ processing_status[cdoc] # "absent"
     /\ cerr \in {"db", "faiss"} /\ "embed" \in cdone)
        => /\ processing_status[cdoc] = "failed"
           /\ "row" \in cdone => ChunkId(cdoc, 0) \notin document_embeddings
           /\ "vector" \in cdone => VectorsOf(ChunkId(cdoc, 0)) = {}

\* C12: every step in which the consumer marks a document with sufficient
\* text as indexed ends with the document's chunk in the Chunk Store and
\* mapped and reachable in the Vector Index.
C12_IndexedMeansInBothStores ==
    [][(/\ cpc = "mark" /\ cpc' = "close"
        /\ processing_status'[cdoc] = "indexed")
           => /\ ChunkId(cdoc, 0) \in document_embeddings'
              /\ ChunkId(cdoc, 0) \in Reachable(CurStore)']_vars

\* C13: when the consumer processes an event for a document whose chunk is
\* already indexed and counted in sync with the store, its add leaves the
\* number of vectors as it was, so that reconcile(force=false) still finds
\* the counts equal.
C13_ReprocessingAddsNoVector ==
    [][(/\ cpc = "add" /\ cpc' # "add"
        /\ processing_status[cdoc] = "indexed"
        /\ ChunkId(cdoc, 0) \in Reachable(CurStore)
        /\ ~NeedsSync(FALSE, Cardinality(Eligible), Len(index)))
           => /\ Len(index') = Len(index)
              /\ ~NeedsSync(FALSE, Cardinality(Eligible'), Len(index'))]_vars

\* C14: the consumer takes an event from the queue only when no event is in
\* processing, and an event leaves processing only by its acknowledgement or
\* negative acknowledgement (or the end of the process).
C14_OneEventAtATime ==
    [][/\ (\E d \in Docs : queue'[d] < queue[d]) => (cdoc = NoDoc /\ cpc = "idle")
       /\ (cdoc # NoDoc /\ cdoc' # cdoc) => (cpc \in {"ack", "nack"} \/ phase' \in {"startup", "stopped"})]_vars

\* an event is in processing while another one waits in the queue
C14_Witness ==
    /\ cdoc # NoDoc /\ cpc \notin {"idle", "stopped"}
    /\ \E d \in Docs : queue[d] > 0

\* C15: the result list a search returns never holds the same chunk_id twice,
\* also when several slots of the index map to one chunk_id.
C15_SearchResultsDistinct ==
    (apc = "done" /\ aret = "results")
        => \A i, j \in 1..Len(s_result) : s_result[i] = s_result[j] => i = j

\* a search returned results from an index in which two slots it saw map to
\* the same chunk_id
C15_Witness ==
    /\ apc = "done" /\ aret = "results" /\ Len(s_result) > 0
    /\ \E s, t \in s_seen \cap DOMAIN id_mapping : s # t /\ id_mapping[s] = id_mapping[t]

\* C16: a search of the VectorStore returns no chunk_id that a returned
\* delete_vectors removed and that was not added again, although the vectors
\* are still in the index.
C16_DeletedNotReturned ==
    aret = "results" => \A j \in 1..Len(s_result) : s_result[j] \notin deleted

\* a search returned a result while the index still holds the vector of a
\* deleted chunk_id
C16_Witness ==
    /\ aret = "results" /\ Len(s_result) > 0
    /\ \E c \in deleted : VectorsOf(c) # {}

\* C17: after a reconcile that rebuilt the index, no chunk_id of a document
\* deleted through DELETE index (and not indexed again) is reachable in it.
C17_DeleteSurvivesRebuild ==
    (phase = "synced" /\ sync_result = "synced") => Reachable(CurStore) \cap deleted = {}

\* C18: once reconcile has returned without error, a further
\* reconcile(force=false) on the same store and index rebuilds nothing.
C18_SecondReconcileRebuildsNothing ==
    (phase = "synced" /\ sync_result \in {"in_sync", "synced", "no_embeddings"})
        => LET again == SyncIndexWithDatabase(CurStore, disk_index, disk_meta,
                                              Eligible, FALSE, "none")
           IN  again.result # "synced" /\ again.store = CurStore

\* a reconcile has rebuilt an index that differs from the one it found
C18_Witness ==
    phase = "synced" /\ sync_result = "synced" /\ CurStore # pre

\* C19: while the startup reconcile has not finished and the consumer thread
\* has not been started after it, the consumer has no event in processing.
C19_NoEventBeforeReconcile ==
    phase # "running" => (cpc = "stopped" /\ cdoc = NoDoc)

\* the consumer processes an event in a process whose startup is complete
C19_Witness ==
    phase = "running" /\ cpc = "fetch" /\ cdoc # NoDoc

\* nothing is left to run: no event queued or in processing, no handler, no
\* save scheduled or running
Quiescent ==
    /\ phase = "running" /\ cpc = "idle" /\ apc = "idle"
    /\ spc = "idle" /\ pending_saves = 0
    /\ \A d \in Docs : queue[d] = 0

\* C20: when the process has nothing left to run, every chunk_id reachable in
\* the Vector Index is reachable in the snapshot on disk: each ingestion's
\* vectors and mappings have been written.
C20_IngestionReachesDisk ==
    Quiescent
        => /\ Reachable(CurStore) # {} => (disk_index.state = "ok" /\ disk_meta.state = "ok")
           /\ Reachable(CurStore)
                 \subseteq Reachable(Store(disk_index.vectors, disk_meta.id_mapping,
                                          disk_meta.metadata))

\* C21: a save_index that fails, or a process that stops between the write of
\* the vector file and the write of the metadata file, does not corrupt the
\* snapshot: when the files were loadable as one consistent state before the
\* save (every slot of the loaded slot map below the number of loaded
\* vectors), they still are after it.
C21_InterruptedSaveLoadsConsistent ==
    [][LET Consistent(di, dm) ==
               LET st == LoadOrCreateIndex(di, dm)
               IN  \A s \in DOMAIN st.id_mapping : s < Len(st.index)
       IN  (\/ spc = "idle" /\ spc' = "wrote_index"
            \/ phase = "startup" /\ phase' = "synced" /\ sync_result' = "error")
           => (Consistent(disk_index, disk_meta) => Consistent(disk_index', disk_meta'))]_vars

\* C22: when the process starts and the vector file, or the metadata file
\* next to an existing vector file, is missing or corrupt, the index that
\* _load_or_create_index leaves is empty: no vector, empty slot map, empty
\* metadata map.
C22_BrokenSnapshotLoadsEmpty ==
    (phase = "startup" /\ (disk_index.state # "ok" \/ disk_meta.state # "ok"))
        => CurStore = EmptyStore

\* C23: over calls of add_vectors, delete_vectors and clear_index, a slot id
\* a call assigns is greater than every slot id that was assigned in the
\* store this call found and in the store the call before it found, and a
\* slot id that was assigned to a chunk_id there is not assigned to another
\* chunk_id.
C23_SlotIdsNeverReused ==
    [][\A s \in DOMAIN id_mapping' \ DOMAIN id_mapping :
           /\ \A t \in DOMAIN id_mapping \cup DOMAIN pre.id_mapping : t < s
           /\ s \in DOMAIN pre.id_mapping => id_mapping'[s] = pre.id_mapping[s]]_vars

\* C24: a shutdown does not stop the consumer and close its connection while
\* an event is in processing: at the step that stops it, the consumer holds no
\* event that it has not acknowledged.
C24_ShutdownWaitsForProcessing ==
    [][(phase = "running" /\ phase' = "stopped") => cpc = "idle"]_vars

C26_EmptyRequestIsClientError ==
    (apc = "done" /\ adoc \in Docs /\ achunks = <<>> /\ aret # "404") => aret = "400"

\* C27: when POST index answers "completed", every chunk of the request has its
\* row in the Chunk Store and is reachable in the Vector Index.
C27_CompletedMeansInBothStores ==
    (apc = "done" /\ aret = "completed") =>
        \A j \in 1..Len(achunks) :
            achunks[j] \in document_chunks /\ achunks[j] \in Reachable(CurStore)

\* C28: a search that was given a threshold, 0 included, returns no entry
\* whose score is below the threshold.
C28_NoScoreBelowThreshold ==
    (call.fn = "search" /\ call.returned /\ call.threshold # <<>>) =>
        \A j \in 1..Len(call.ret) : call.ret[j].score >= call.threshold[1]

\* C29: for a text that passes the length check of chunk_text, every
\* sentence of the normalized text is in an emitted chunk, each chunk holds
\* consecutive sentences, the first chunk starts at the first sentence, and
\* each next chunk starts no later than the sentence after the last one of the
\* chunk before it and ends later: no sentence is missing and none is out of
\* order.
C29_ChunksCoverAllSentences ==
    (/\ call.fn = "chunk_text" /\ call.returned
     /\ Len(call.text) > 0 /\ StrippedLen(call.text) >= MIN_CHUNK_LENGTH) =>
        LET chunks == call.ret
            First(j) == chunks[j].sentences[1]
            Last(j) == chunks[j].sentences[Len(chunks[j].sentences)]
        IN  /\ \A i \in 1..Len(call.text) :
                   \E j \in 1..Len(chunks) :
                       \E q \in 1..Len(chunks[j].sentences) : chunks[j].sentences[q] = i
            /\ \A j \in 1..Len(chunks) :
                   \A q \in 1..(Len(chunks[j].sentences) - 1) :
                       chunks[j].sentences[q + 1] = chunks[j].sentences[q] + 1
            /\ \A j \in 1..(Len(chunks) - 1) :
                   First(j + 1) <= Last(j) + 1 /\ Last(j + 1) > Last(j)

\* C30: a text that passes the length check of chunk_text and whose normalized
\* form is no longer than CHUNK_SIZE yields exactly one chunk, of index 0.
C30_ShortTextYieldsOneChunk ==
    (/\ call.fn = "chunk_text" /\ call.returned
     /\ Len(call.text) > 0 /\ StrippedLen(call.text) >= MIN_CHUNK_LENGTH
     /\ StrippedLen(CleanText(call.text)) <= CHUNK_SIZE) =>
        Len(call.ret) = 1 /\ call.ret[1].index = 0

\* C31: of two consecutive chunks chunk_text emits, the sentences the later
\* one repeats from the earlier one are the last sentences of the earlier one,
\* and their lengths add up to at most CHUNK_OVERLAP characters.
C31_OverlapIsBoundedSuffix ==
    (call.fn = "chunk_text" /\ call.returned) =>
        \A j \in 1..(Len(call.ret) - 1) :
            LET earlier == call.ret[j].sentences
                later == call.ret[j + 1].sentences
                lens == SentTokenize(CleanText(call.text))
                repeated == {q \in 1..Len(earlier) :
                                \E r \in 1..Len(later) : later[r] = earlier[q]}
                n == Cardinality(repeated)
            IN  /\ repeated = (Len(earlier) - n + 1)..Len(earlier)
                /\ SumOf([q \in 1..n |-> lens[earlier[Len(earlier) - n + q]]], 1)
                       <= CHUNK_OVERLAP

\* chunk_text emitted two consecutive chunks that share a sentence
C31_Witness ==
    /\ call.fn = "chunk_text" /\ call.returned
    /\ \E j \in 1..(Len(call.ret) - 1) :
           \E q \in 1..Len(call.ret[j].sentences), r \in 1..Len(call.ret[j + 1].sentences) :
               call.ret[j].sentences[q] = call.ret[j + 1].sentences[r]

\* C32: for a document with sufficient text, process_document writes one
\* entry per chunk that chunk_text yields for that text: as many entries as
\* chunks, with chunk indexes 0..n-1, each with the whole content of its chunk.
C32_OneEntryPerChunk ==
    (/\ call.fn = "process_document" /\ call.returned
     /\ Len(call.text) > 0 /\ StrippedLen(call.text) >= MIN_CHUNK_LENGTH) =>
        LET chunks == ChunkText(call.text)
        IN  /\ Len(call.ret) = Len(chunks)
            /\ \A j \in 1..Len(call.ret) :
                   /\ call.ret[j].index = j - 1
                   /\ call.ret[j].character_count = chunks[j].character_count

\* C33: when the processing of an event ends for a document whose text is
\* absent or too short, the document is marked indexed, the attempt has written
\* neither a row nor a vector, and the event is acknowledged.
C33_ShortTextIsIndexedEmpty ==
    [][(/\ cdoc \in Docs /\ cdoc' = NoDoc /\ phase' = "running"
        /\ processing_status[cdoc] # "absent" /\ ~has_text[cdoc])
       => (/\ cpc = "ack"
           /\ processing_status[cdoc] = "indexed"
           /\ cdone \cap {"row", "vector", "mapping"} = {})]_vars

C35_ConcurrentAddsKeepTheirSlots ==
    [][/\ (cpc = "map" /\ cpc' = "mark")
              => (cstart = cslot /\ cstart \notin DOMAIN id_mapping)
       /\ (apc = "map" /\ (ai' # ai \/ apc' # "map"))
              => LET slot == astart + ai - 1
                 IN  /\ slot < Len(index) /\ index[slot + 1] = achunks[ai]
                     /\ slot \notin DOMAIN id_mapping]_vars

\* C36: after a rebuild by sync_index_with_database, every chunk that POST
\* index wrote to the Chunk Store (and that was not deleted from the index
\* since) is reachable in the Vector Index.
C36_ApiChunksSurviveReconcile ==
    (phase = "synced" /\ sync_result = "synced") =>
        \A c \in document_chunks \ deleted : c \in Reachable(CurStore)

\* C37: DELETE index(D) leaves unchanged the metadata and the slot mappings
\* of every chunk whose document (the document_id search derives from the
\* chunk_id) is not D, also when that document's id starts with D + "_chunk_".
C37_DeleteTouchesOnlyItsDocument ==
    (call.fn = "delete_document_index" /\ call.returned) =>
        /\ \A c \in DOMAIN pre.metadata :
               DocOf(c) # call.document_id => c \in DOMAIN metadata
        /\ \A slot \in DOMAIN pre.id_mapping :
               DocOf(pre.id_mapping[slot]) # call.document_id
                   => (slot \in DOMAIN id_mapping /\ id_mapping[slot] = pre.id_mapping[slot])

\* C38: after any sequence of add_vectors, delete_vectors, clear_index and
\* rebuild calls made one after the other, the chunk_ids the slot map holds as
\* values are exactly the keys of the metadata map.
C38_SlotMapValuesAreMetadataKeys ==
    {id_mapping[s] : s \in DOMAIN id_mapping} = DOMAIN metadata

\* two slots are mapped to one chunk_id, after a delete_vectors of another one
C38_Witness ==
    /\ aret = "returned" /\ deleted # {}
    /\ Cardinality(DOMAIN id_mapping) > Cardinality(DOMAIN metadata)
    /\ DOMAIN metadata # {}

\* C39: every chunk chunk_text emits that holds more than one sentence has a
\* content of at most CHUNK_SIZE characters, also when it starts with overlap
\* sentences.
C39_ChunkWithinMaximumSize ==
    (call.fn = "chunk_text" /\ call.returned) =>
        \A j \in 1..Len(call.ret) :
            Len(call.ret[j].sentences) > 1 => call.ret[j].character_count <= CHUNK_SIZE

====
